---- MODULE Spec2Model ----
(***************************************************************************)
(* Model of portafolioCyberPunk/script.js: the event handlers the script   *)
(* attaches to the document (mobile menu, smooth scrolling, header style,  *)
(* lazy images, Escape key, resize) and the DOM state they read and write. *)
(* One action is one dispatched event: every listener the event reaches    *)
(* runs, in registration / bubbling order, and a listener that throws      *)
(* keeps the writes it made before the throw and does not stop the others. *)
(***************************************************************************)
EXTENDS Integers, Sequences, FiniteSets, TLC

VARIABLES
    present,        \* which of the looked-up elements exist in the document
    targets,        \* id fragment -> offsetTop of the element carrying that id
    hidden,         \* element id -> classList.contains('hidden')
    overflow,       \* document.body.style.overflow
    headerHeight,   \* document.querySelector('header').offsetHeight
    innerWidth,     \* window.innerWidth
    ev,             \* the event dispatched last
    before,         \* hidden and overflow as they were when that event was dispatched
    thrown,         \* listeners that threw while the last event was dispatched
    prevented,      \* e.preventDefault() was called on the last event
    scrollCalls,    \* window.scrollTo({top}) calls made by the last event
    scrollY,        \* window.scrollY
    headerClasses,  \* classList of the header element
    hasIO,          \* 'IntersectionObserver' in window
    observed,       \* images imageObserver is observing
    imgSrc,         \* img.src
    imgLazy,        \* img.classList.contains('lazy')
    srcAssigns,     \* number of executions of "img.src = img.dataset.src"
    entries,        \* the entries of the last imageObserver notification
    focusCount,     \* number of elements of #mobile-menu matching focusableElements
    active,         \* document.activeElement
    activeBefore,   \* document.activeElement when the last event was dispatched
    shiftKey,       \* e.shiftKey of the last keydown
    revealObserved, \* elements the animation observer is observing
    fadeIn,         \* elements whose classList contains 'animate-fade-in'
    revealEntries,  \* the entries of the last animation observer notification
    bodyClasses,    \* document.body.classList
    headStyles,     \* style elements the script appended to document.head
    loadFired,      \* the window's load event has been dispatched
    pc,             \* how far the page's initialization has come
    listeners,      \* the listeners and observers the script has attached
    setupThrown,    \* DOMContentLoaded listeners that threw
    line,           \* next statement of index.js, or "done" / "crashed"
    modules,        \* module names require() can resolve
    log,            \* lines written by console.log
    listening,      \* port the Express server listens on, 0 when none
    counters,       \* the private variable 'counter' of each createCounter() object
    incs,           \* number of increment() calls made on each object
    lastCall        \* the last call on a counter object and what it returned

vars == <<present, targets, hidden, overflow, headerHeight, innerWidth, ev,
          before, thrown, prevented, scrollCalls, scrollY, headerClasses,
          hasIO, observed, imgSrc, imgLazy, srcAssigns, entries,
          focusCount, active, activeBefore, shiftKey,
          revealObserved, fadeIn, revealEntries, bodyClasses, headStyles, loadFired,
          pc, listeners, setupThrown,
          line, modules, log, listening, counters, incs, lastCall>>

pageVars == <<present, targets, hidden, overflow, headerHeight, innerWidth,
              ev, before, thrown, prevented, scrollCalls>>
headerVars == <<scrollY, headerClasses>>
lazyVars == <<hasIO, observed, imgSrc, imgLazy, srcAssigns, entries>>
focusVars == <<focusCount, active, activeBefore, shiftKey>>
revealVars == <<revealObserved, fadeIn, revealEntries, bodyClasses, headStyles, loadFired>>
setupVars == <<pc, listeners, setupThrown>>
nodeVars == <<line, modules, log, listening, counters, incs, lastCall>>

----------------------------------------------------------------------------
(* The document *)

\* elements the script looks up by id or tag
Elements == {"mobile-menu-btn", "mobile-menu", "menu-icon", "close-icon", "header"}

\* the elements whose 'hidden' class the menu handlers toggle
MenuEls == {"mobile-menu", "menu-icon", "close-icon"}

\* md breakpoint of the resize handler
Breakpoint == 768

Widths == {320, Breakpoint - 1, Breakpoint, 1280}

HeaderHeights == {64, 80}

OffsetTops == {40, 800}

\* fragments of the hrefs "#", "#a", "#1", "#a1" of the in-page anchors
Frags == {<<>>, <<"a">>, <<"1">>, <<"a", "1">>}

\* ids an element of the document may carry
Ids == {<<"a">>, <<"1">>}

NoHref == <<"none">>

Digits == {"1"}

Keys == {"Escape", "Enter"}

NoEvent == [type |-> "none", target |-> "none", inMenu |-> FALSE,
            href |-> NoHref, key |-> "none"]

ClickEvent(target, inMenu, href) ==
    [NoEvent EXCEPT !.type = "click", !.target = target,
                    !.inMenu = inMenu, !.href = href]

----------------------------------------------------------------------------
(* Running a listener.  A listener works on a record of the state it can  *)
(* write; exc is set by the statement that throws and makes the listener's *)
(* remaining statements no-ops.                                            *)

Cur == [hidden |-> hidden, overflow |-> overflow, thrown |-> {},
        prevented |-> FALSE, scrollCalls |-> <<>>, exc |-> FALSE]

\* an uncaught TypeError / SyntaxError inside a listener
Throw(s) == [s EXCEPT !.exc = TRUE]

\* the event loop reports the listener's exception and goes on to the next listener
Catch(listener, s) ==
    [s EXCEPT !.thrown = IF s.exc THEN @ \cup {listener} ELSE @, !.exc = FALSE]

\* el.classList.add('hidden') (h = TRUE) or el.classList.remove('hidden'):
\* a TypeError when getElementById returned null for el
SetHidden(s, el, h) ==
    IF s.exc THEN s
    ELSE IF el \notin present THEN Throw(s)
    ELSE [s EXCEPT !.hidden[el] = h]

\* document.body.style.overflow = v
SetOverflow(s, v) == IF s.exc THEN s ELSE [s EXCEPT !.overflow = v]

\* OpenMenu without the scroll-lock
OpenMenuNoLock(s) ==
    SetHidden(
        SetHidden(
            SetHidden(s, "mobile-menu", FALSE),
            "menu-icon", TRUE),
        "close-icon", FALSE)

\* the "Open menu" statements of the toggle listener
OpenMenu(s) ==
    SetOverflow(
        SetHidden(
            SetHidden(
                SetHidden(s, "mobile-menu", FALSE),
                "menu-icon", TRUE),
            "close-icon", FALSE),
        "hidden")

\* CloseMenu that leaves the close icon shown
CloseMenuKeepsCloseIcon(s) ==
    SetOverflow(
        SetHidden(
            SetHidden(s, "mobile-menu", TRUE),
            "menu-icon", FALSE),
        "")

\* the close statements, repeated verbatim in the toggle, menu-link,
\* outside-click, Escape and resize listeners
CloseMenu(s) ==
    SetOverflow(
        SetHidden(
            SetHidden(
                SetHidden(s, "mobile-menu", TRUE),
                "menu-icon", FALSE),
            "close-icon", TRUE),
        "")

\* the toggle button's click listener is attached only behind this guard
BtnListenerAttached == {"mobile-menu-btn", "mobile-menu"} \subseteq present

\* click listener of #mobile-menu-btn
BtnClick(s) ==
    Catch("btnClick",
          LET isOpen == s.hidden["mobile-menu"]
          IN  IF isOpen THEN OpenMenu(s) ELSE CloseMenu(s))

\* click listener of each .mobile-menu-link
LinkClick(s) == Catch("linkClick", CloseMenu(s))

\* DocClick without the isClickOnMenuBtn test
DocClickIgnoresBtn(s, inMenu, onBtn) ==
    Catch("docClick",
          IF "mobile-menu" \notin present THEN Throw(s)
          ELSE IF "mobile-menu-btn" \notin present THEN Throw(s)
          ELSE IF ~inMenu /\ ~s.hidden["mobile-menu"]
               THEN CloseMenu(s)
               ELSE s)

\* DocClick without the isClickInsideMenu test
DocClickIgnoresMenu(s, inMenu, onBtn) ==
    Catch("docClick",
          IF "mobile-menu" \notin present THEN Throw(s)
          ELSE IF "mobile-menu-btn" \notin present THEN Throw(s)
          ELSE IF ~onBtn /\ ~s.hidden["mobile-menu"]
               THEN CloseMenu(s)
               ELSE s)

\* click listener of the document: closes the menu on a click outside it
DocClick(s, inMenu, onBtn) ==
    Catch("docClick",
          IF "mobile-menu" \notin present THEN Throw(s)
          ELSE IF "mobile-menu-btn" \notin present THEN Throw(s)
          ELSE IF ~inMenu /\ ~onBtn /\ ~s.hidden["mobile-menu"]
               THEN CloseMenu(s)
               ELSE s)

\* document.querySelector accepts "#" + frag only when frag is a CSS
\* identifier: not empty and not starting with a digit
ValidSelector(frag) == Len(frag) > 0 /\ frag[1] \notin Digits

\* click listener of each a[href^="#"]
NavClick(s, frag) ==
    Catch("navClick",
          LET s1 == [s EXCEPT !.prevented = TRUE]
          IN  IF ~ValidSelector(frag) THEN Throw(s1)
              ELSE IF frag \notin DOMAIN targets THEN s1
              ELSE IF "header" \notin present THEN Throw(s1)
              ELSE LET targetPosition == targets[frag] - headerHeight
                   IN  [s1 EXCEPT !.scrollCalls = Append(@, targetPosition)])

\* keydown listener of the document
KeyDown(s, key) ==
    Catch("keydown",
          IF key = "Escape"
          THEN IF "mobile-menu" \in present /\ ~s.hidden["mobile-menu"]
               THEN CloseMenu(s)
               ELSE s
          ELSE s)

\* OnResize comparing with > instead of >=
OnResizeStrict(s, w) ==
    Catch("resize",
          IF w > Breakpoint /\ "mobile-menu" \in present /\ ~s.hidden["mobile-menu"]
          THEN CloseMenu(s)
          ELSE s)

\* resize listener of the window; w is window.innerWidth
OnResize(s, w) ==
    Catch("resize",
          IF w >= Breakpoint /\ "mobile-menu" \in present /\ ~s.hidden["mobile-menu"]
          THEN CloseMenu(s)
          ELSE s)

\* the listeners' writes become the document's state
Commit(s) ==
    /\ hidden' = s.hidden
    /\ overflow' = s.overflow
    /\ thrown' = s.thrown
    /\ prevented' = s.prevented
    /\ scrollCalls' = s.scrollCalls
    /\ before' = [hidden |-> hidden, overflow |-> overflow]

----------------------------------------------------------------------------
(* Events of the page *)

\* the markup's initial state: menu closed, menu icon shown, close icon hidden
PageInit ==
    /\ present \in SUBSET Elements
    /\ \E D \in SUBSET Ids : targets \in [D -> OffsetTops]
    /\ hidden = [el \in MenuEls |-> el # "menu-icon"]
    /\ overflow = ""
    /\ headerHeight \in HeaderHeights
    /\ innerWidth \in Widths
    /\ ev = NoEvent
    /\ before = [hidden |-> hidden, overflow |-> overflow]
    /\ thrown = {}
    /\ prevented = FALSE
    /\ scrollCalls = <<>>

\* a click on the toggle button (or one of its icons)
ClickToggleBtn ==
    /\ "mobile-menu-btn" \in present
    /\ ev' = ClickEvent("btn", FALSE, NoHref)
    /\ LET s1 == IF BtnListenerAttached THEN BtnClick(Cur) ELSE Cur
       IN  Commit(DocClick(s1, FALSE, TRUE))
    /\ UNCHANGED <<present, targets, headerHeight, innerWidth>>
    /\ UNCHANGED <<headerVars, lazyVars, focusVars, revealVars, setupVars, nodeVars>>

\* a click on a .mobile-menu-link, which may also be an in-page anchor
ClickMenuLink ==
    \E inMenu \in BOOLEAN, href \in Frags \cup {NoHref} :
        /\ inMenu => "mobile-menu" \in present
        /\ ev' = ClickEvent("link", inMenu, href)
        /\ LET s1 == LinkClick(Cur)
               s2 == IF href = NoHref THEN s1 ELSE NavClick(s1, href)
           IN  Commit(DocClick(s2, inMenu, FALSE))
        /\ UNCHANGED <<present, targets, headerHeight, innerWidth>>
        /\ UNCHANGED <<headerVars, lazyVars, focusVars, revealVars, setupVars, nodeVars>>

\* a click on an in-page anchor that is not a .mobile-menu-link
ClickAnchor ==
    \E inMenu \in BOOLEAN, href \in Frags :
        /\ inMenu => "mobile-menu" \in present
        /\ ev' = ClickEvent(IF inMenu THEN "inside" ELSE "outside", inMenu, href)
        /\ Commit(DocClick(NavClick(Cur, href), inMenu, FALSE))
        /\ UNCHANGED <<present, targets, headerHeight, innerWidth>>
        /\ UNCHANGED <<headerVars, lazyVars, focusVars, revealVars, setupVars, nodeVars>>

\* a click inside the menu container, on neither a link nor an anchor
ClickInsideMenu ==
    /\ "mobile-menu" \in present
    /\ ev' = ClickEvent("inside", TRUE, NoHref)
    /\ Commit(DocClick(Cur, TRUE, FALSE))
    /\ UNCHANGED <<present, targets, headerHeight, innerWidth>>
    /\ UNCHANGED <<headerVars, lazyVars, focusVars, revealVars, setupVars, nodeVars>>

\* a click anywhere else in the document
ClickOutside ==
    /\ ev' = ClickEvent("outside", FALSE, NoHref)
    /\ Commit(DocClick(Cur, FALSE, FALSE))
    /\ UNCHANGED <<present, targets, headerHeight, innerWidth>>
    /\ UNCHANGED <<headerVars, lazyVars, focusVars, revealVars, setupVars, nodeVars>>

\* a key is pressed
KeyDownEvent ==
    \E key \in Keys :
        /\ ev' = [NoEvent EXCEPT !.type = "keydown", !.key = key]
        /\ Commit(KeyDown(Cur, key))
        /\ UNCHANGED <<present, targets, headerHeight, innerWidth>>
        /\ UNCHANGED <<headerVars, lazyVars, focusVars, revealVars, setupVars, nodeVars>>

\* the window is resized to width w
ResizeEvent ==
    \E w \in Widths :
        /\ innerWidth' = w
        /\ ev' = [NoEvent EXCEPT !.type = "resize"]
        /\ Commit(OnResize(Cur, w))
        /\ UNCHANGED <<present, targets, headerHeight>>
        /\ UNCHANGED <<headerVars, lazyVars, focusVars, revealVars, setupVars, nodeVars>>

\* the layout changes the header's height; no listener runs
LayoutChange ==
    \E h \in HeaderHeights :
        /\ "header" \in present
        /\ h # headerHeight
        /\ headerHeight' = h
        /\ ev' = [NoEvent EXCEPT !.type = "layout"]
        /\ Commit(Cur)
        /\ UNCHANGED <<present, targets, innerWidth>>
        /\ UNCHANGED <<headerVars, lazyVars, focusVars, revealVars, setupVars, nodeVars>>

Next ==
    \/ ClickToggleBtn
    \/ ClickMenuLink
    \/ ClickAnchor
    \/ ClickInsideMenu
    \/ ClickOutside
    \/ KeyDownEvent
    \/ ResizeEvent
    \/ LayoutChange

----------------------------------------------------------------------------
(* Header background on scroll *)

\* the scroll listener switches the header's style above this offset
ScrollThreshold == 50

MaxScrollY == 100

HeaderClassNames == {"glass", "backdrop-blur-md", "fixed"}

\* OnScroll comparing with >= instead of >
OnScrollInclusive(classes, y) ==
    IF y >= ScrollThreshold
    THEN (classes \cup {"backdrop-blur-md"}) \ {"glass"}
    ELSE (classes \ {"backdrop-blur-md"}) \cup {"glass"}

\* scroll listener of the window; y is window.scrollY
OnScroll(classes, y) ==
    IF y > ScrollThreshold
    THEN (classes \cup {"backdrop-blur-md"}) \ {"glass"}
    ELSE (classes \ {"backdrop-blur-md"}) \cup {"glass"}

\* the scroll listener is attached only when the header exists
ScrollListenerAttached == "header" \in present

HeaderInit ==
    /\ scrollY = 0
    /\ headerClasses \in SUBSET HeaderClassNames
    /\ "header" \notin present => headerClasses = {}

\* a page whose header is never scrolled
HeaderIdle ==
    /\ scrollY = 0
    /\ headerClasses = {}

\* the window is scrolled to offset y
ScrollEvent ==
    \E y \in 0..MaxScrollY :
        /\ scrollY' = y
        /\ headerClasses' = IF ScrollListenerAttached
                            THEN OnScroll(headerClasses, y)
                            ELSE headerClasses
        /\ ev' = [NoEvent EXCEPT !.type = "scroll"]
        /\ Commit(Cur)
        /\ UNCHANGED <<present, targets, headerHeight, innerWidth>>
        /\ UNCHANGED <<lazyVars, focusVars, revealVars, setupVars, nodeVars>>

----------------------------------------------------------------------------
(* Lazy loading of images *)

NumImages == 3

MaxAssigns == 3

\* the img[data-src] elements of the document
Imgs == 1..NumImages

\* img.dataset.src
DataSrc(i) == <<"data-src", i>>

\* img.src before the swap
PlaceholderSrc == <<"placeholder">>

\* Unobserve that forgets to unobserve
KeepObserving(obs, S) == obs

\* imageObserver.unobserve(img) for the images of S
Unobserve(obs, S) == obs \ S

\* the images the callback loads: those whose entry isIntersecting
Intersecting(e) == {i \in DOMAIN e : e[i]}

\* after the DOMContentLoaded listener: every img[data-src] is observed when
\* IntersectionObserver exists, none otherwise
LazyInit ==
    /\ hasIO \in BOOLEAN
    /\ observed = IF hasIO THEN Imgs ELSE {}
    /\ imgSrc = [i \in Imgs |-> PlaceholderSrc]
    /\ imgLazy \in [Imgs -> BOOLEAN]
    /\ srcAssigns = [i \in Imgs |-> 0]
    /\ entries = <<>>

\* a page without lazy images
LazyIdle ==
    /\ hasIO = TRUE
    /\ observed = {}
    /\ imgSrc = [i \in Imgs |-> PlaceholderSrc]
    /\ imgLazy = [i \in Imgs |-> FALSE]
    /\ srcAssigns = [i \in Imgs |-> 0]
    /\ entries = <<>>

\* imageObserver's callback is run with one entry for each image of S, a
\* set of observed images whose intersection changed
Notify ==
    \E S \in (SUBSET observed) \ {{}} :
        \E e \in [S -> BOOLEAN] :
            /\ \A i \in Imgs : srcAssigns[i] < MaxAssigns
            /\ entries' = e
            /\ imgSrc' = [i \in Imgs |->
                            IF i \in Intersecting(e) THEN DataSrc(i) ELSE imgSrc[i]]
            /\ imgLazy' = [i \in Imgs |-> imgLazy[i] /\ i \notin Intersecting(e)]
            /\ srcAssigns' = [i \in Imgs |->
                            IF i \in Intersecting(e) THEN srcAssigns[i] + 1
                                                     ELSE srcAssigns[i]]
            /\ observed' = Unobserve(observed, Intersecting(e))
            /\ UNCHANGED hasIO
            /\ UNCHANGED pageVars
            /\ UNCHANGED <<headerVars, focusVars, revealVars, setupVars, nodeVars>>

----------------------------------------------------------------------------
(* Focus management of the mobile menu *)

MaxFocusable == 4

\* document.activeElement: the n-th element of #mobile-menu matching
\* focusableElements (1..focusCount), the menu container itself, or an
\* element outside the menu
MenuItself == 0
OutsideMenu == -1

\* focusable[i] for an index outside the NodeList
Undefined == -2

\* el.focus(): a TypeError when el is undefined
Focus(s, el) ==
    IF s.exc THEN s
    ELSE IF el = Undefined THEN Throw(s)
    ELSE [s EXCEPT !.active = el]

\* e.preventDefault()
PreventDefault(s) == IF s.exc THEN s ELSE [s EXCEPT !.prevented = TRUE]

\* FocusTrap that wraps the focus but forgets e.preventDefault()
FocusTrapNoPrevent(s, shift) ==
    Catch("menuKeydown",
          LET firstFocusable == IF focusCount >= 1 THEN 1 ELSE Undefined
              lastFocusable == IF focusCount >= 1 THEN focusCount ELSE Undefined
          IN  IF shift
              THEN IF s.active = firstFocusable THEN Focus(s, lastFocusable) ELSE s
              ELSE IF s.active = lastFocusable THEN Focus(s, firstFocusable) ELSE s)

\* keydown listener of #mobile-menu, for e.key = 'Tab'
FocusTrap(s, shift) ==
    Catch("menuKeydown",
          LET firstFocusable == IF focusCount >= 1 THEN 1 ELSE Undefined
              lastFocusable == IF focusCount >= 1 THEN focusCount ELSE Undefined
          IN  IF shift
              THEN IF s.active = firstFocusable
                   THEN PreventDefault(Focus(s, lastFocusable))
                   ELSE s
              ELSE IF s.active = lastFocusable
                   THEN PreventDefault(Focus(s, firstFocusable))
                   ELSE s)

\* the browser's own handling of Tab / Shift+Tab from element a of the menu
\* subtree: the next / previous focusable element in document order
DefaultTab(a, shift) ==
    IF shift
    THEN IF a >= 2 THEN a - 1 ELSE OutsideMenu
    ELSE IF a + 1 <= focusCount THEN a + 1 ELSE OutsideMenu

\* the keydown listener of the menu is attached only when the menu exists
MenuKeyListenerAttached == "mobile-menu" \in present

FocusInit ==
    /\ focusCount \in 0..MaxFocusable
    /\ active = OutsideMenu
    /\ activeBefore = OutsideMenu
    /\ shiftKey = FALSE

\* a page whose menu has nothing to focus
FocusIdle ==
    /\ focusCount = 0
    /\ active = OutsideMenu
    /\ activeBefore = OutsideMenu
    /\ shiftKey = FALSE

\* the focus is moved by the pointer or by a script; the script listens to
\* no focus event
FocusMove ==
    \E a \in OutsideMenu..focusCount :
        /\ a >= MenuItself => ("mobile-menu" \in present /\ ~hidden["mobile-menu"])
        /\ a # active
        /\ active' = a
        /\ activeBefore' = active
        /\ ev' = [NoEvent EXCEPT !.type = "focus"]
        /\ Commit(Cur)
        /\ UNCHANGED <<focusCount, shiftKey>>
        /\ UNCHANGED <<present, targets, headerHeight, innerWidth>>
        /\ UNCHANGED <<headerVars, lazyVars, revealVars, setupVars, nodeVars>>

\* Tab or Shift+Tab is pressed while the focus is in the open menu: the
\* menu's listener, the document's listener, then the browser's default
\* unless it was prevented
TabKeyDown ==
    \E shift \in BOOLEAN :
        /\ "mobile-menu" \in present /\ ~hidden["mobile-menu"]
        /\ active >= MenuItself
        /\ LET s0 == Cur @@ [active |-> active]
               s1 == IF MenuKeyListenerAttached THEN FocusTrap(s0, shift) ELSE s0
               s2 == KeyDown(s1, "Tab")
           IN  /\ Commit(s2)
               /\ active' = IF s2.prevented THEN s2.active
                                            ELSE DefaultTab(s2.active, shift)
        /\ activeBefore' = active
        /\ shiftKey' = shift
        /\ ev' = [NoEvent EXCEPT !.type = "keydown", !.key = "Tab"]
        /\ UNCHANGED focusCount
        /\ UNCHANGED <<present, targets, headerHeight, innerWidth>>
        /\ UNCHANGED <<headerVars, lazyVars, revealVars, setupVars, nodeVars>>

----------------------------------------------------------------------------
(* Fade-in animation of the cards and the load fallback *)

NumCards == 1

\* the .glass-card / .hover-glow elements of the document
Cards == 1..NumCards

\* RevealCallback that also removes the class when an element leaves the viewport
RevealCallbackToggle(classes, e) ==
    (classes \cup Intersecting(e)) \ {c \in DOMAIN e : ~e[c]}

\* the animation observer's callback: entry.target.classList.add('animate-fade-in')
\* for each intersecting entry
RevealCallback(classes, e) == classes \cup Intersecting(e)

\* OnLoad that appends the style but does not mark the body
OnLoadStyleOnly(body, styles) ==
    [body |-> body, styles |-> styles \cup {"loaded"}]

\* load listener of the window
OnLoad(body, styles) ==
    [body |-> body \cup {"loaded"}, styles |-> styles \cup {"loaded"}]

\* the rule "body.loaded .glass-card, body.loaded .hover-glow" applies
LoadedRuleApplies == "loaded" \in headStyles /\ "loaded" \in bodyClasses

\* the animation fadeInUp runs on card c: by ".animate-fade-in" or by the
\* loaded rule
Animated(c) == ("fade" \in headStyles /\ c \in fadeIn) \/ LoadedRuleApplies

\* the opacity the style rules declare for a card: the loaded rule is more
\* specific than ".glass-card, .hover-glow { opacity: 0 }"
DeclaredOpacity ==
    IF LoadedRuleApplies THEN 1
    ELSE IF "fade" \in headStyles THEN 0
    ELSE 1

\* the opacity card c ends with: fadeInUp fills forwards with opacity 1
Opacity(c) == IF Animated(c) THEN 1 ELSE DeclaredOpacity

\* after the script ran and DOMContentLoaded was handled: the fade style is
\* in the head and the cards are observed when IntersectionObserver exists
RevealInit ==
    /\ revealObserved = IF hasIO THEN Cards ELSE {}
    /\ fadeIn = {}
    /\ revealEntries = <<>>
    /\ bodyClasses = {}
    /\ headStyles = {"fade"}
    /\ loadFired = FALSE

\* a page without cards
RevealIdle ==
    /\ revealObserved = {}
    /\ fadeIn = {}
    /\ revealEntries = <<>>
    /\ bodyClasses = {}
    /\ headStyles = {"fade"}
    /\ loadFired = FALSE

\* the animation observer's callback is run with one entry for each card of
\* S, a set of observed cards whose intersection changed
RevealNotify ==
    \E S \in (SUBSET revealObserved) \ {{}} :
        \E e \in [S -> BOOLEAN] :
            /\ revealEntries' = e
            /\ fadeIn' = RevealCallback(fadeIn, e)
            /\ ev' = [NoEvent EXCEPT !.type = "intersection"]
            /\ Commit(Cur)
            /\ UNCHANGED <<revealObserved, bodyClasses, headStyles, loadFired>>
            /\ UNCHANGED <<present, targets, headerHeight, innerWidth>>
            /\ UNCHANGED <<headerVars, lazyVars, focusVars, setupVars, nodeVars>>

\* the window's load event, dispatched once after DOMContentLoaded
LoadEvent ==
    /\ pc = "ready"
    /\ ~loadFired
    /\ loadFired' = TRUE
    /\ LET r == IF "load" \in listeners
                THEN OnLoad(bodyClasses, headStyles)
                ELSE [body |-> bodyClasses, styles |-> headStyles]
       IN  /\ bodyClasses' = r.body
           /\ headStyles' = r.styles
    /\ ev' = [NoEvent EXCEPT !.type = "load"]
    /\ Commit(Cur)
    /\ UNCHANGED <<revealObserved, fadeIn, revealEntries>>
    /\ UNCHANGED <<present, targets, headerHeight, innerWidth>>
    /\ UNCHANGED <<headerVars, lazyVars, focusVars, setupVars, nodeVars>>

----------------------------------------------------------------------------
(* Initialization of the page script *)

\* listeners the script registers while it is evaluated
TopLevelListeners == {"load", "keydown", "resize", "error"}

\* the script's DOMContentLoaded listeners, in registration order: mobile
\* menu, smooth scrolling, header, animation observer, lazy images, focus
DCLListeners == <<"menu", "nav", "header", "reveal", "lazy", "focus">>

\* what one DOMContentLoaded listener attaches, and whether it throws:
\* "new IntersectionObserver" is a ReferenceError where the constructor
\* does not exist
Setup(name) ==
    CASE name = "menu" ->
            [attach |-> (IF BtnListenerAttached THEN {"btnClick"} ELSE {})
                        \cup {"linkClick", "docClick"},
             throws |-> FALSE]
      [] name = "nav" -> [attach |-> {"navClick"}, throws |-> FALSE]
      [] name = "header" ->
            [attach |-> IF ScrollListenerAttached THEN {"scroll"} ELSE {},
             throws |-> FALSE]
      [] name = "reveal" ->
            [attach |-> IF hasIO THEN {"revealObserver"} ELSE {},
             throws |-> ~hasIO]
      [] name = "lazy" ->
            [attach |-> IF hasIO THEN {"imageObserver"} ELSE {},
             throws |-> FALSE]
      [] name = "focus" ->
            [attach |-> IF MenuKeyListenerAttached THEN {"menuKeydown"} ELSE {},
             throws |-> FALSE]

RECURSIVE RunSetupsAbort(_)
\* RunSetups as if all setups were one listener: a throw ends the rest
RunSetupsAbort(names) ==
    IF names = <<>> THEN [attached |-> {}, thrown |-> {}]
    ELSE LET h == Setup(Head(names))
         IN  IF h.throws
             THEN [attached |-> h.attach, thrown |-> {Head(names)}]
             ELSE LET r == RunSetupsAbort(Tail(names))
                  IN  [attached |-> h.attach \cup r.attached, thrown |-> r.thrown]

RECURSIVE RunSetups(_)
\* dispatch of DOMContentLoaded: every listener runs, whether or not an
\* earlier one threw
RunSetups(names) ==
    IF names = <<>> THEN [attached |-> {}, thrown |-> {}]
    ELSE LET h == Setup(Head(names))
             r == RunSetups(Tail(names))
         IN  [attached |-> h.attach \cup r.attached,
              thrown |-> (IF h.throws THEN {Head(names)} ELSE {}) \cup r.thrown]

\* the page after the script ran and DOMContentLoaded was handled
SetupDone ==
    /\ pc = "ready"
    /\ listeners = TopLevelListeners \cup RunSetups(DCLListeners).attached
    /\ setupThrown = RunSetups(DCLListeners).thrown

\* the page before the script is evaluated
SetupInit ==
    /\ pc = "script"
    /\ listeners = {}
    /\ setupThrown = {}

\* the script is evaluated: it appends the fade style and registers its
\* top-level listeners
EvalScript ==
    /\ pc = "script"
    /\ pc' = "parsed"
    /\ headStyles' = headStyles \cup {"fade"}
    /\ listeners' = listeners \cup TopLevelListeners
    /\ UNCHANGED setupThrown
    /\ UNCHANGED <<revealObserved, fadeIn, revealEntries, bodyClasses, loadFired>>
    /\ UNCHANGED <<pageVars, headerVars, lazyVars, focusVars, nodeVars>>

\* DOMContentLoaded is dispatched to the script's six listeners
DOMContentLoaded ==
    /\ pc = "parsed"
    /\ pc' = "ready"
    /\ LET r == RunSetups(DCLListeners)
       IN  /\ listeners' = listeners \cup r.attached
           /\ setupThrown' = r.thrown
           /\ revealObserved' = IF "revealObserver" \in r.attached THEN Cards ELSE {}
    /\ UNCHANGED <<fadeIn, revealEntries, bodyClasses, headStyles, loadFired>>
    /\ UNCHANGED <<pageVars, headerVars, lazyVars, focusVars, nodeVars>>

----------------------------------------------------------------------------
(* The tutorial script index.js, run by node *)

MaxCounters == 2

MaxIncrements == 3

\* the port the server listens on
PORT == 3000

\* the object held by the script's const 'counter'
ScriptCounter == 0

\* line is one of these after the last statement / after an uncaught exception
Done == 0
Crashed == -1

\* a call that returns undefined
NoResult == -1

\* createCounter(): a new object with its own 'counter' variable, 0
CreateCounterOp(cs, id) == [c \in DOMAIN cs \cup {id} |-> IF c = id THEN 0 ELSE cs[c]]

\* IncrementOp on a 'counter' variable shared by all objects
IncrementShared(cs, id) == [c \in DOMAIN cs |-> cs[c] + 1]

\* increment(): counter++ on the variable the object closes over
IncrementOp(cs, id) == [cs EXCEPT ![id] = @ + 1]

\* getValue(): return counter
GetValueOp(cs, id) == cs[id]

\* sum(a, b)
Sum(a, b) == a + b

\* require(name): the module's exports, or an Error when it does not resolve
Resolves(name) == name \in modules

NodeInit ==
    /\ line = 16
    /\ modules \in SUBSET {"express", "./math"}
    /\ log = <<>>
    /\ listening = 0
    /\ counters = <<>>
    /\ incs = <<>>
    /\ lastCall = [op |-> "none", obj |-> ScriptCounter, result |-> NoResult]

\* node is not running
NodeIdle ==
    /\ line = 16
    /\ modules = {}
    /\ log = <<>>
    /\ listening = 0
    /\ counters = <<>>
    /\ incs = <<>>
    /\ lastCall = [op |-> "none", obj |-> ScriptCounter, result |-> NoResult]

browserVars == <<pageVars, headerVars, lazyVars, focusVars, revealVars, setupVars>>

\* a caller creates a counter object
CreateCounter ==
    \E id \in (1..MaxCounters) \ DOMAIN counters :
        /\ counters' = CreateCounterOp(counters, id)
        /\ incs' = [c \in DOMAIN incs \cup {id} |-> IF c = id THEN 0 ELSE incs[c]]
        /\ lastCall' = [op |-> "create", obj |-> id, result |-> NoResult]
        /\ UNCHANGED <<line, modules, log, listening>>
        /\ UNCHANGED browserVars

\* a caller calls increment() on one of its objects
Increment ==
    \E id \in DOMAIN counters \ {ScriptCounter} :
        /\ incs[id] < MaxIncrements
        /\ counters' = IncrementOp(counters, id)
        /\ incs' = [incs EXCEPT ![id] = @ + 1]
        /\ lastCall' = [op |-> "increment", obj |-> id, result |-> NoResult]
        /\ UNCHANGED <<line, modules, log, listening>>
        /\ UNCHANGED browserVars

\* a caller calls getValue() on one of its objects
GetValue ==
    \E id \in DOMAIN counters \ {ScriptCounter} :
        /\ lastCall' = [op |-> "getValue", obj |-> id,
                        result |-> GetValueOp(counters, id)]
        /\ UNCHANGED <<line, modules, log, listening, counters, incs>>
        /\ UNCHANGED browserVars

\* lines 16-22: the two loops schedule their timers
ScriptTimers ==
    /\ line = 16
    /\ line' = 41
    /\ UNCHANGED <<modules, log, listening, counters, incs, lastCall>>
    /\ UNCHANGED browserVars

\* line 41: const counter = createCounter()
ScriptCreate ==
    /\ line = 41
    /\ line' = 42
    /\ counters' = CreateCounterOp(counters, ScriptCounter)
    /\ incs' = [c \in DOMAIN incs \cup {ScriptCounter} |->
                    IF c = ScriptCounter THEN 0 ELSE incs[c]]
    /\ lastCall' = [op |-> "create", obj |-> ScriptCounter, result |-> NoResult]
    /\ UNCHANGED <<modules, log, listening>>
    /\ UNCHANGED browserVars

\* lines 42 and 45: console.log(counter.getValue())
ScriptLogValue ==
    /\ line \in {42, 45}
    /\ line' = IF line = 42 THEN 43 ELSE 154
    /\ lastCall' = [op |-> "getValue", obj |-> ScriptCounter,
                    result |-> GetValueOp(counters, ScriptCounter)]
    /\ log' = Append(log, <<"value", GetValueOp(counters, ScriptCounter)>>)
    /\ UNCHANGED <<modules, listening, counters, incs>>
    /\ UNCHANGED browserVars

\* lines 43 and 44: counter.increment()
ScriptIncrement ==
    /\ line \in {43, 44}
    /\ line' = line + 1
    /\ counters' = IncrementOp(counters, ScriptCounter)
    /\ incs' = [incs EXCEPT ![ScriptCounter] = @ + 1]
    /\ lastCall' = [op |-> "increment", obj |-> ScriptCounter, result |-> NoResult]
    /\ UNCHANGED <<modules, log, listening>>
    /\ UNCHANGED browserVars

\* lines 154-157: module.exports = { sum }; const math = require('./math')
ScriptRequireMath ==
    /\ line = 154
    /\ line' = IF Resolves("./math") THEN 158 ELSE Crashed
    /\ UNCHANGED <<modules, log, listening, counters, incs, lastCall>>
    /\ UNCHANGED browserVars

\* line 158: console.log('Sum:', math.sum(5, 3))
ScriptLogSum ==
    /\ line = 158
    /\ line' = 190
    /\ log' = Append(log, <<"Sum:", Sum(5, 3)>>)
    /\ UNCHANGED <<modules, listening, counters, incs, lastCall>>
    /\ UNCHANGED browserVars

\* lines 190-205: const express = require('express'); the app and its routes
ScriptRequireExpress ==
    /\ line = 190
    /\ line' = IF Resolves("express") THEN 209 ELSE Crashed
    /\ UNCHANGED <<modules, log, listening, counters, incs, lastCall>>
    /\ UNCHANGED browserVars

\* line 209: app.listen(PORT, ...)
ScriptListen ==
    /\ line = 209
    /\ line' = Done
    /\ listening' = PORT
    /\ UNCHANGED <<modules, log, counters, incs, lastCall>>
    /\ UNCHANGED browserVars

----------------------------------------------------------------------------
(* Specifications *)

\* what the specifications of one component leave idle
OthersIdle == FocusIdle /\ RevealIdle /\ SetupDone /\ NodeIdle

Init == PageInit /\ HeaderIdle /\ LazyIdle /\ OthersIdle

\* the page's clicks, keys, resizes and layout changes
Spec == Init /\ [][Next]_vars

\* a page with every menu element and no anchor target
PageIdle ==
    /\ PageInit
    /\ Elements \ {"header"} \subseteq present
    /\ targets = <<>>
    /\ headerHeight = 64
    /\ innerWidth = 1280

InitScroll == PageIdle /\ HeaderInit /\ LazyIdle /\ OthersIdle

NextScroll == ScrollEvent

\* scrolling a page with or without a header
SpecScroll == InitScroll /\ [][NextScroll]_vars

InitLazy == PageIdle /\ present = Elements /\ HeaderIdle /\ LazyInit /\ OthersIdle

NextLazy == Notify

\* intersection notifications of the lazy images
SpecLazy == InitLazy /\ [][NextLazy]_vars

\* the menu after a click on the toggle button opened it
MenuOpened ==
    /\ hidden = [el \in MenuEls |-> el = "menu-icon"]
    /\ overflow = "hidden"
    /\ before = [hidden |-> [el \in MenuEls |-> el # "menu-icon"], overflow |-> ""]
    /\ ev = ClickEvent("btn", FALSE, NoHref)

InitFocus ==
    /\ present = Elements
    /\ targets = <<>>
    /\ headerHeight = 64
    /\ innerWidth = 320
    /\ MenuOpened
    /\ thrown = {}
    /\ prevented = FALSE
    /\ scrollCalls = <<>>
    /\ HeaderIdle /\ LazyIdle
    /\ FocusInit
    /\ RevealIdle /\ SetupDone /\ NodeIdle

NextFocus ==
    \/ FocusMove
    \/ TabKeyDown

\* Tab and Shift+Tab in the open menu
SpecFocus == InitFocus /\ [][NextFocus]_vars

InitReveal ==
    /\ PageIdle /\ present = Elements
    /\ HeaderIdle
    /\ LazyInit /\ imgLazy = [i \in Imgs |-> FALSE]
    /\ FocusIdle
    /\ RevealInit /\ SetupDone /\ NodeIdle

NextReveal ==
    \/ RevealNotify
    \/ LoadEvent
    \/ ScrollEvent
    \/ ResizeEvent
    \/ ClickOutside

\* intersection notifications of the cards, the load event and other events
SpecReveal == InitReveal /\ [][NextReveal]_vars

InitSetup ==
    /\ PageInit
    /\ targets = <<>>
    /\ headerHeight = 64
    /\ innerWidth = 320
    /\ HeaderIdle
    /\ hasIO \in BOOLEAN
    /\ observed = {}
    /\ imgSrc = [i \in Imgs |-> PlaceholderSrc]
    /\ imgLazy = [i \in Imgs |-> FALSE]
    /\ srcAssigns = [i \in Imgs |-> 0]
    /\ entries = <<>>
    /\ FocusIdle
    /\ revealObserved = {}
    /\ fadeIn = {}
    /\ revealEntries = <<>>
    /\ bodyClasses = {}
    /\ headStyles = {}
    /\ loadFired = FALSE
    /\ SetupInit
    /\ NodeIdle

NextSetup ==
    \/ EvalScript
    \/ DOMContentLoaded
    \/ LoadEvent
    \/ pc = "ready" /\ RevealNotify
    \/ pc = "ready" /\ ClickToggleBtn
    \/ pc = "ready" /\ KeyDownEvent
    \/ pc = "ready" /\ ResizeEvent

\* the page from the evaluation of the script on
SpecSetup == InitSetup /\ [][NextSetup]_vars

InitNode ==
    /\ PageIdle /\ present = Elements
    /\ HeaderIdle /\ LazyIdle
    /\ FocusIdle /\ RevealIdle /\ SetupDone
    /\ NodeInit

NextNode ==
    \/ CreateCounter
    \/ Increment
    \/ GetValue
    \/ ScriptTimers
    \/ ScriptCreate
    \/ ScriptLogValue
    \/ ScriptIncrement
    \/ ScriptRequireMath
    \/ ScriptLogSum
    \/ ScriptRequireExpress
    \/ ScriptListen

\* node index.js, and callers of createCounter
SpecNode == InitNode /\ [][NextNode]_vars

----------------------------------------------------------------------------
(* Properties of the mobile menu *)

\* the menu is open: #mobile-menu lacks 'hidden'
Open == ~hidden["mobile-menu"]

WasOpen == ~before.hidden["mobile-menu"]

\* toggle button, menu container and both icons exist
MenuElsPresent ==
    {"mobile-menu-btn", "mobile-menu", "menu-icon", "close-icon"} \subseteq present

\* menu hidden, menu icon shown, close icon hidden, scroll-lock cleared
ClosedState ==
    /\ \A el \in MenuEls \cap present : hidden[el] = (el # "menu-icon")
    /\ overflow = ""

MenuUnchanged == hidden = before.hidden /\ overflow = before.overflow

\* the two-state machine of the menu: the state after event e, w the width
RefNext(open, e, w) ==
    IF e.type = "click" /\ e.target = "btn" THEN ~open
    ELSE IF e.type = "click" /\ e.target \in {"link", "outside"} THEN FALSE
    ELSE IF e.type = "keydown" /\ e.key = "Escape" THEN FALSE
    ELSE IF e.type = "resize" /\ w >= 768 THEN FALSE
    ELSE open

\* C1: with the button, the menu and both icons present, after every event
\* the menu's open/closed state is the one the two-state machine reaches
\* from the state before the event: toggled by a toggle-button click, closed
\* by a menu-link click, an outside click, Escape or a resize to >= 768,
\* and unchanged by every other event.
C1_MenuFollowsStateMachine ==
    MenuElsPresent => (Open = RefNext(WasOpen, ev, innerWidth))

\* the toggle button opened the menu
C1_Witness ==
    /\ MenuElsPresent
    /\ ev.type = "click" /\ ev.target = "btn"
    /\ ~WasOpen /\ Open

\* C2: with all menu elements present, body overflow is 'hidden' exactly
\* when the menu is open.
C2_ScrollLockIffOpen ==
    MenuElsPresent => ((overflow = "hidden") <=> Open)

\* the menu was opened and the scroll-lock set
C2_Witness ==
    /\ MenuElsPresent
    /\ ~WasOpen /\ Open
    /\ overflow = "hidden"

\* C3: without the toggle button or without the menu container no click
\* makes a menu listener throw, and no event changes the menu's state.
C3_AbsentMenuIsNoOp ==
    ~BtnListenerAttached =>
        /\ thrown \cap {"btnClick", "linkClick", "docClick"} = {}
        /\ MenuUnchanged

\* C4: with the toggle button and the menu present, whichever of menu icon,
\* close icon and header is absent, no listener throws (a navigation click
\* only on a selector querySelector rejects) and the menu is open exactly
\* when the scroll-lock is set.
C4_OptionalElementsGuarded ==
    BtnListenerAttached =>
        /\ thrown \cap {"btnClick", "linkClick", "docClick", "keydown", "resize"} = {}
        /\ "navClick" \in thrown => ~ValidSelector(ev.href)
        /\ (overflow = "hidden") <=> Open

\* C5: with all menu elements present the menu icon is hidden exactly when
\* the menu is open, the close icon exactly when it is closed, and a closed
\* menu is always in the one closed state: menu hidden, menu icon shown,
\* close icon hidden, scroll-lock cleared.
C5_IconsMirrorMenu ==
    MenuElsPresent =>
        /\ hidden["menu-icon"] <=> Open
        /\ hidden["close-icon"] <=> ~Open
        /\ ~Open => ClosedState

\* an open menu was closed by Escape
C5_Witness ==
    /\ MenuElsPresent
    /\ ev.type = "keydown" /\ ev.key = "Escape"
    /\ WasOpen /\ ClosedState

\* C10: a resize to a width >= 768 while the menu is open leaves the menu in
\* the closed state; a resize while the menu is closed changes neither the
\* menu, the icons nor body overflow; a resize to a width < 768 while the
\* menu is open leaves it open and unchanged.
C10_ResizeClosesOnDesktop ==
    ("mobile-menu" \in present /\ ev.type = "resize") =>
        /\ (WasOpen /\ innerWidth >= 768) => ClosedState
        /\ ~WasOpen => MenuUnchanged
        /\ (WasOpen /\ innerWidth < 768) => (Open /\ MenuUnchanged)

\* an open menu was closed by a resize to exactly 768
C10_Witness ==
    /\ MenuElsPresent
    /\ ev.type = "resize" /\ innerWidth = 768
    /\ WasOpen /\ ClosedState

----------------------------------------------------------------------------
(* Properties of the smooth scrolling *)

\* the last event was a click on an in-page anchor
AnchorClicked == ev.type = "click" /\ ev.href # NoHref

\* C7: in a document with every looked-up element, a click on an in-page
\* anchor whose href resolves to no element prevents the default, requests no scroll and throws nothing.
C7_MissingTargetSwallowed ==
    (Elements \subseteq present /\ AnchorClicked /\ ev.href \notin DOMAIN targets) =>
        /\ prevented
        /\ scrollCalls = <<>>
        /\ "navClick" \notin thrown

\* C8: in a document with every looked-up element, a click on an in-page
\* anchor whose target element exists prevents the default and requests exactly one scroll, to the target's offsetTop minus
\* the header's height at the time of the click.
C8_ScrollToTargetBelowHeader ==
    (Elements \subseteq present /\ AnchorClicked /\ ev.href \in DOMAIN targets) =>
        /\ prevented
        /\ scrollCalls = <<targets[ev.href] - headerHeight>>

----------------------------------------------------------------------------
(* Properties of the header style *)

\* C6: after a scroll event the header has 'backdrop-blur-md' and not
\* 'glass' when scrollY > 50, and 'glass' and not 'backdrop-blur-md' when
\* scrollY <= 50, whatever classes it had before and whatever offsets were
\* handled before.
C6_HeaderStyleFollowsOffset ==
    (ev.type = "scroll" /\ "header" \in present) =>
        IF scrollY > 50
        THEN "backdrop-blur-md" \in headerClasses /\ "glass" \notin headerClasses
        ELSE "glass" \in headerClasses /\ "backdrop-blur-md" \notin headerClasses

\* a scroll to exactly 50 left the header translucent
C6_Witness ==
    /\ "header" \in present
    /\ ev.type = "scroll" /\ scrollY = 50
    /\ "glass" \in headerClasses /\ "backdrop-blur-md" \notin headerClasses

----------------------------------------------------------------------------
(* Properties of the lazy images *)

ImgUnchanged(i) ==
    /\ imgSrc'[i] = imgSrc[i]
    /\ imgLazy'[i] = imgLazy[i]
    /\ srcAssigns'[i] = srcAssigns[i]
    /\ (i \in observed') = (i \in observed)

\* C9: a notification with an intersecting entry for an image is the first
\* and only assignment of its src: src becomes dataset.src, 'lazy' is
\* removed and the image is unobserved; a notification with a
\* non-intersecting entry, or with no entry for the image, changes neither
\* the image nor whether it is observed; an unobserved image gets no entry.
C9_SourceSwapIsOneShot ==
    [][\A i \in Imgs :
        /\ i \in DOMAIN entries' => i \in observed
        /\ IF i \in DOMAIN entries' /\ entries'[i]
           THEN /\ srcAssigns[i] = 0 /\ srcAssigns'[i] = 1
                /\ imgSrc'[i] = DataSrc(i)
                /\ ~imgLazy'[i]
                /\ i \notin observed'
           ELSE ImgUnchanged(i)]_vars

\* an image was swapped and a later notification came for other images only
C9_Witness ==
    \E i \in Imgs :
        /\ srcAssigns[i] = 1 /\ imgSrc[i] = DataSrc(i) /\ i \notin observed
        /\ entries # <<>> /\ i \notin DOMAIN entries

----------------------------------------------------------------------------
(* Properties of the focus trap *)

TabPressed == ev.type = "keydown" /\ ev.key = "Tab"

\* C11: after Tab or Shift+Tab with the focus on a focusable descendant of
\* the open menu the focus is still on one: Tab on the last moves it to the
\* first and Shift+Tab on the first to the last, both with the default
\* prevented; from any other position the listener prevents nothing and the
\* focus moves to the neighbour.  The menu's listener never throws, also
\* with one or no focusable descendant.
C11_FocusTrapWraps ==
    TabPressed =>
        /\ "menuKeydown" \notin thrown
        /\ activeBefore \in 1..focusCount =>
            /\ active \in 1..focusCount
            /\ IF ~shiftKey /\ activeBefore = focusCount
               THEN active = 1 /\ prevented
               ELSE IF shiftKey /\ activeBefore = 1
               THEN active = focusCount /\ prevented
               ELSE /\ ~prevented
                    /\ active = activeBefore + (IF shiftKey THEN -1 ELSE 1)

\* Tab on the last of several focusable descendants wrapped to the first
C11_Witness ==
    /\ TabPressed /\ ~shiftKey
    /\ focusCount >= 2
    /\ activeBefore = focusCount
    /\ active = 1 /\ prevented

----------------------------------------------------------------------------
(* Properties of the fade-in animation *)

\* C12: an element gets 'animate-fade-in' only by a notification with an
\* intersecting entry for it, no step of any event takes the class from an
\* element that has it, and a notification leaves exactly the elements that
\* had the class or have an intersecting entry with it.
C12_RevealIsOneWay ==
    [][/\ fadeIn \subseteq fadeIn'
       /\ \A c \in fadeIn' \ fadeIn :
            /\ ev'.type = "intersection"
            /\ c \in DOMAIN revealEntries' /\ revealEntries'[c]
       /\ ev'.type = "intersection" =>
            fadeIn' = fadeIn \cup {c \in DOMAIN revealEntries' : revealEntries'[c]}
      ]_vars

\* a revealed element got a non-intersecting notification and kept the class
C12_Witness ==
    \E c \in fadeIn :
        /\ ev.type = "intersection"
        /\ c \in DOMAIN revealEntries /\ ~revealEntries[c]

\* C13: once the load event was handled the body has the 'loaded' class and
\* every card ends with opacity 1, whether or not it was ever notified and
\* whether or not the animation observer could be set up; before the load
\* event a card without 'animate-fade-in' has opacity 0.
C13_LoadForcesVisible ==
    /\ loadFired =>
        /\ "loaded" \in bodyClasses
        /\ \A c \in Cards : Opacity(c) = 1
    /\ \A c \in Cards : (~loadFired /\ c \notin fadeIn) => Opacity(c) = 0

\* load was handled on a page whose animation observer setup threw
C13_Witness ==
    /\ ~hasIO /\ "reveal" \in setupThrown
    /\ loadFired /\ ev.type = "load"
    /\ fadeIn = {}
    /\ \A c \in Cards : Opacity(c) = 1

----------------------------------------------------------------------------
(* Properties of the initialization *)

\* C14: after DOMContentLoaded, whether or not the animation observer's
\* setup threw, the listeners of every other component are attached: load,
\* keydown, resize, error, the link, document and anchor click listeners,
\* the button's listener when button and menu exist, the scroll listener
\* when the header exists and the focus trap when the menu exists; only the
\* animation observer's setup can have thrown; a handled load event has
\* marked the body.
C14_SetupsAreIndependent ==
    pc = "ready" =>
        /\ {"load", "keydown", "resize", "error"} \subseteq listeners
        /\ {"linkClick", "docClick", "navClick"} \subseteq listeners
        /\ {"mobile-menu-btn", "mobile-menu"} \subseteq present => "btnClick" \in listeners
        /\ "header" \in present => "scroll" \in listeners
        /\ "mobile-menu" \in present => "menuKeydown" \in listeners
        /\ setupThrown = IF hasIO THEN {} ELSE {"reveal"}
        /\ loadFired => "loaded" \in bodyClasses

\* without IntersectionObserver the setup of the animation observer threw,
\* and the menu still opened on a click of the toggle button
C14_Witness ==
    /\ pc = "ready" /\ ~hasIO /\ setupThrown = {"reveal"}
    /\ Elements \subseteq present
    /\ "menuKeydown" \in listeners
    /\ ev.type = "click" /\ ev.target = "btn" /\ Open

----------------------------------------------------------------------------
(* Properties of the click dispatch *)

\* the menu state the last event was dispatched in
Before == [Cur EXCEPT !.hidden = before.hidden, !.overflow = before.overflow]

\* C15: with the button and the menu present, a click on the toggle button
\* leaves the menu as the button's listener alone leaves it (open when it
\* was closed), a click on a menu link leaves it as the link's listener
\* alone leaves it (closed), and a click inside the menu that is not on a
\* menu link leaves the menu as it was: the document's listener, run after
\* them for the same click, changes nothing.
C15_DocumentListenerKeepsTargetResult ==
    (BtnListenerAttached /\ ev.type = "click") =>
        /\ ev.target = "btn" =>
            /\ hidden = BtnClick(Before).hidden
            /\ overflow = BtnClick(Before).overflow
            /\ ~WasOpen => Open
        /\ ev.target = "link" =>
            /\ hidden = LinkClick(Before).hidden
            /\ overflow = LinkClick(Before).overflow
            /\ ~Open
        /\ ev.target = "inside" => MenuUnchanged

\* a click inside the open menu, not on a link, left it open
C15_Witness ==
    /\ MenuElsPresent
    /\ ev.type = "click" /\ ev.target = "inside" /\ ev.href = NoHref
    /\ WasOpen /\ Open

----------------------------------------------------------------------------
(* Properties of index.js *)

\* C16: with express installed, node index.js ends without an uncaught
\* exception, having logged 'Sum: 8' and listening on port 3000.
C16_ScriptReachesListen ==
    ("express" \in modules /\ line \in {Done, Crashed}) =>
        /\ line = Done
        /\ \E i \in DOMAIN log : log[i] = <<"Sum:", 8>>
        /\ listening = 3000

\* C17: the private counter of every createCounter() object equals the
\* number of increment() calls made on that object, getValue() returns that
\* number, and the script's own counter logs 0 and then 2.
C17_CounterCountsOwnIncrements ==
    /\ DOMAIN counters = DOMAIN incs
    /\ \A c \in DOMAIN counters : counters[c] = incs[c]
    /\ lastCall.op = "getValue" => lastCall.result = incs[lastCall.obj]
    /\ Len(log) >= 1 => log[1] = <<"value", 0>>
    /\ Len(log) >= 2 => log[2] = <<"value", 2>>

\* getValue() returned 2 on an object incremented twice while another
\* object is still at 0
C17_Witness ==
    \E a, b \in DOMAIN counters :
        /\ a # b
        /\ incs[a] = 2 /\ incs[b] = 0
        /\ lastCall = [op |-> "getValue", obj |-> a, result |-> 2]

====
